---- MODULE Spec2Model ----
(***************************************************************************)
(* Model of the packagist datasource (lib/datasource/packagist/index.ts).  *)
(*                                                                         *)
(* Each caller is one invocation of getReleases.  An action is the code    *)
(* that runs between two suspension points (await) of the async functions: *)
(* between two awaits nothing else runs, so the read of global.repoCache   *)
(* and the install of 'pending' in getAllPackages are one step.            *)
(*                                                                         *)
(* JavaScript values are tagged records so that undefined, null, 'pending' *)
(* and objects stay distinct and comparable.  Strings that the code        *)
(* concatenates or rewrites (registry URLs, shard keys, version keys) are  *)
(* sequences of one-character strings.                                     *)
(***************************************************************************)
EXTENDS Integers, Sequences, FiniteSets, TLC

\* ------------------------------------------------------------------ bounds
NumCallers == 2
\* getReleases invocations issued in one run
MaxCalls == 3
\* provider-includes files of the largest root document
MaxShards == 6
\* entries of the largest raw version map given to the normalizer
MaxVersions == 2

\* -------------------------------------------------------- program constants
\* p-all concurrency ceiling of the provider-includes fan-out
Concurrency == 5

Callers == 1..NumCallers

\* ------------------------------------------------------------ JS values
Undefined == [t |-> "undefined"]
Null == [t |-> "null"]
Pending == [t |-> "pending"]

\* JavaScript truthiness of the values the model stores: undefined and null
\* are falsy, the string 'pending' and every object are truthy.
Truthy(v) == v.t \notin {"undefined", "null"}

\* Truthiness of a JS string field ("" and absent are falsy).
Absent == "undefined"
TruthyStr(s) == s \notin {Absent, ""}

\* ------------------------------------------------------------ registries
\* 'https://packagist.org'
PackagistOrg == <<"o">>
\* Two private registries; RegA is a proper prefix of RegB.
RegA == <<"a">>
RegB == <<"a", "b">>
\* A registry URL on the host packagist.org that is not the string
\* 'https://packagist.org' (such as 'https://packagist.org/')
RegO == <<"o", "/">>
RegUrls == {RegA, RegB, RegO}
AllUrls == RegUrls \cup {PackagistOrg}

\* host of the requests sent for a registry (err.host of a failed request)
Host(url) == IF Head(url) = "o" THEN "packagist.org" ELSE "private"

Names == {"p", "q"}

\* ------------------------------------------------------- release normalizer
\* A raw version map is the sequence of its entries in key iteration order.
\* variant: two leading 'v' are removed
StripVMut(version) ==
  IF Len(version) > 0 /\ Head(version) = "v"
  THEN IF Len(version) > 1 /\ version[2] = "v" THEN Tail(Tail(version))
       ELSE Tail(version)
  ELSE version

\* version.replace(/^v/, '')
StripV(version) ==
  IF Len(version) > 0 /\ Head(version) = "v" THEN Tail(version) ELSE version

\* variant: an entry without the field clears it
SurfaceMut(value, acc) == value

\* dep.homepage = release.homepage || dep.homepage, and the guarded
\* assignment of dep.sourceUrl: a falsy value keeps what was set before
Surface(value, acc) == IF TruthyStr(value) THEN value ELSE acc

RECURSIVE LastHomepage(_, _)
LastHomepage(versions, acc) ==
  IF versions = <<>> THEN acc
  ELSE LastHomepage(Tail(versions), Surface(Head(versions).homepage, acc))

RECURSIVE LastSourceUrl(_, _)
LastSourceUrl(versions, acc) ==
  IF versions = <<>> THEN acc
  ELSE LastSourceUrl(Tail(versions), Surface(Head(versions).sourceUrl, acc))

\* A JS array is [t |-> "array", items |-> <<...>>], so that it can be told
\* from null.
Array(items) == [t |-> "array", items |-> items]

\* variant: `releases` keeps its initial null when there is no version map
extractDepReleasesMut(versions, name) ==
  IF ~Truthy(versions)
  THEN [t |-> "dep", name |-> name, releases |-> Null,
        homepage |-> Absent, sourceUrl |-> Absent]
  ELSE LET e == versions.entries IN
       [t |-> "dep", name |-> name,
        releases |-> Array([i \in 1..Len(e) |->
                        [version |-> StripV(e[i].version),
                         gitRef |-> e[i].version,
                         releaseTimestamp |-> e[i].time]]),
        homepage |-> LastHomepage(e, Absent),
        sourceUrl |-> LastSourceUrl(e, Absent)]

\* extractDepReleases(versions) followed by dep.name = name.  A raw version
\* map is [t |-> "versions", entries |-> <<...>>]; Undefined is a falsy
\* argument (the `!versions` branch).
extractDepReleases(versions, name) ==
  IF ~Truthy(versions)
  THEN [t |-> "dep", name |-> name, releases |-> Array(<<>>),
        homepage |-> Absent, sourceUrl |-> Absent]
  ELSE LET e == versions.entries IN
       [t |-> "dep", name |-> name,
        releases |-> Array([i \in 1..Len(e) |->
                        [version |-> StripV(e[i].version),
                         gitRef |-> e[i].version,
                         releaseTimestamp |-> e[i].time]]),
        homepage |-> LastHomepage(e, Absent),
        sourceUrl |-> LastSourceUrl(e, Absent)]

\* ------------------------------------------------------------ server data
VersionMap(entries) == [t |-> "versions", entries |-> entries]
VM1 == VersionMap(<< [version |-> <<"v", "1">>, homepage |-> "h1",
                      sourceUrl |-> Absent, time |-> "t1"] >>)
VM2 == VersionMap(<< [version |-> <<"1">>, homepage |-> Absent,
                      sourceUrl |-> "s1", time |-> "t1"],
                     [version |-> <<"v", "2">>, homepage |-> "h2",
                      sourceUrl |-> Absent, time |-> "t2"] >>)

\* shard keys; RegA \o KeyBK = RegB \o KeyK
KeyBK == <<"b", "k">>
KeyK == <<"k">>

EmptyMap == <<>>

\* Root documents (PackageMeta).  An absent packages / includes /
\* provider-includes / providers field and an empty object behave alike in
\* getRegistryMeta and its users, so both are the empty map or sequence.
\* flat package p, one provider shard and one includes file
DocOne ==
  [packages |-> ("p" :> VM1), includes |-> << [key |-> KeyK, sha256 |-> "h2"] >>,
   providerIncludes |-> << [key |-> KeyBK, sha256 |-> "h1"] >>,
   providers |-> EmptyMap, providersUrl |-> "tpl"]
\* provider layout with two shards
DocProv ==
  [packages |-> EmptyMap, includes |-> <<>>,
   providerIncludes |-> << [key |-> KeyBK, sha256 |-> "h1"],
                           [key |-> KeyK, sha256 |-> "h2"] >>,
   providers |-> ("q" :> "h0"), providersUrl |-> "tpl"]
\* includes layout
DocInc ==
  [packages |-> EmptyMap, includes |-> << [key |-> KeyK, sha256 |-> "h1"] >>,
   providerIncludes |-> <<>>, providers |-> EmptyMap, providersUrl |-> Absent]
\* every layout at once: p is flat, in the includes file and a provider
\* package; q is in the includes file and a provider package
DocAll ==
  [packages |-> ("p" :> VM1), includes |-> << [key |-> KeyK, sha256 |-> "h1"] >>,
   providerIncludes |-> << [key |-> KeyBK, sha256 |-> "h1"] >>,
   providers |-> ("p" :> "h0" @@ "q" :> "h0"), providersUrl |-> "tpl"]
\* flat package q only
DocFlat ==
  [packages |-> ("q" :> VM2), includes |-> <<>>, providerIncludes |-> <<>>,
   providers |-> EmptyMap, providersUrl |-> Absent]
\* includes layout with two files
DocIncTwo ==
  [packages |-> EmptyMap,
   includes |-> << [key |-> KeyBK, sha256 |-> "h1"],
                   [key |-> KeyK, sha256 |-> "h2"] >>,
   providerIncludes |-> <<>>, providers |-> EmptyMap, providersUrl |-> Absent]
\* provider layout with n shards, keys k1, k2, ...
Digits == <<"1", "2", "3", "4", "5", "6", "7", "8", "9">>
KeyN(i) == <<"k", Digits[i]>>
DocMany(n) ==
  [packages |-> EmptyMap, includes |-> <<>>,
   providerIncludes |-> [i \in 1..n |-> [key |-> KeyN(i), sha256 |-> "h1"]],
   providers |-> EmptyMap, providersUrl |-> "tpl"]

\* Shard documents (PackagistFile): hasProviders tells whether the body has a
\* `providers` field at all; an absent `packages` is the empty map.
ShardP == [hasProviders |-> TRUE, providers |-> ("p" :> "h1"),
           packages |-> ("p" :> VM2)]
ShardQ == [hasProviders |-> TRUE, providers |-> ("p" :> "h2" @@ "q" :> "h2"),
           packages |-> ("p" :> VM2 @@ "q" :> VM1)]
ShardR == [hasProviders |-> TRUE, providers |-> EmptyMap,
           packages |-> ("p" :> VM1)]
ShardBare == [hasProviders |-> FALSE, providers |-> EmptyMap,
              packages |-> EmptyMap]
NoBody == [hasProviders |-> FALSE, providers |-> EmptyMap,
           packages |-> EmptyMap, none |-> TRUE]

\* Request errors as the transport reports them (statusCode 0 / code "" mean
\* the property is absent).
HttpError(status, code, url) ==
  [statusCode |-> status, code |-> code, host |-> Host(url)]
\* the failures of a request, as <<statusCode, code>>: not found, unauthorized,
\* server errors, timeout, connection reset, DNS failure, and an unrecognised
\* transport error
AllFailures == { <<404, "">>, <<401, "">>, <<500, "">>, <<599, "">>,
                 <<0, "ETIMEDOUT">>, <<0, "ECONNRESET">>, <<0, "ENOTFOUND">>,
                 <<0, "EPROTO">> }
\* one failure of each outcome of the catch blocks
SomeFailures == { <<404, "">>, <<500, "">>, <<0, "ETIMEDOUT">> }
OneFailure == { <<500, "">> }
\* a TypeError raised by the code itself: no statusCode, code or host
TypeError == [statusCode |-> 0, code |-> "", host |-> ""]
\* no exception
NoErr == [t |-> "none"]

\* variant: a 5xx status is not escalated
CatchLookupMut(err) ==
  IF err.statusCode = 404 \/ err.code = "ENOTFOUND" THEN "null"
  ELSE IF /\ err.host = "packagist.org"
          /\ err.code \in {"ECONNRESET", "ETIMEDOUT"}
       THEN "throw"
       ELSE "null"

\* what packageLookup's catch block does with an error: return null or
\* throw DatasourceError
CatchLookup(err) ==
  IF err.statusCode = 404 \/ err.code = "ENOTFOUND" THEN "null"
  ELSE IF /\ err.host = "packagist.org"
          /\ \/ err.code \in {"ECONNRESET", "ETIMEDOUT"}
             \/ (err.statusCode >= 500 /\ err.statusCode < 600)
       THEN "throw"
       ELSE "null"

\* Per-package documents (the body of <providers-url> and of /p/<name>.json)
PkgBodies(name) ==
  { [hasPackages |-> TRUE, packages |-> (name :> VM2)],
    [hasPackages |-> TRUE, packages |-> EmptyMap],
    [hasPackages |-> FALSE, packages |-> EmptyMap] }

\* variant: the registry URL is not part of the key
RepoKeyMut(regUrl) == <<"packagist-">>

\* key of a registry in global.repoCache: `packagist-${regUrl}`
RepoKey(regUrl) == <<"packagist-">> \o regUrl

\* no per-package document has been received
NoPkgBody == [hasPackages |-> FALSE, packages |-> EmptyMap, none |-> TRUE]

\* persistent cache key of a shard: regUrl + key
CacheKey(regUrl, key) == regUrl \o key

\* ------------------------------------------------------------ inputs
NoCreds == [username |-> Absent, password |-> Absent]
NoRules == [u \in AllUrls |-> NoCreds]
\* full credentials for RegA
RulesA == [NoRules EXCEPT ![RegA] = [username |-> "user", password |-> "pass"]]
\* a username without password for RegA
RulesUser == [NoRules EXCEPT ![RegA] = [username |-> "user", password |-> Absent]]

\* records the persistent shard cache may hold from an earlier run: the hash
\* RegA's root document names, or an older one, with content that differs
\* from what the registry serves now
CacheSame == (CacheKey(RegA, KeyBK) :> [res |-> ShardQ, sha256 |-> "h1"])
CacheOld == (CacheKey(RegA, KeyBK) :> [res |-> ShardQ, sha256 |-> "h9"])

Lookups(lists) == [lookupName : Names, registryUrls : lists]

\* only caller 1 has lookups to do
Single(reqs) == [c \in Callers |-> IF c = 1 THEN reqs ELSE {}]

\* A run: what the registries serve, how requests may fail, the host rules, the persistent cache it
\* starts with, and the lookups each caller may issue.
Run(root, shard, failures, rules, cache, workload) ==
  [root |-> root, shard |-> shard, failures |-> failures, hostRules |-> rules,
   filesCache |-> cache, workload |-> workload]

Shards == (KeyBK :> ShardP @@ KeyK :> ShardQ)
\* the same with a shard document that has no `providers` field
ShardsBare == (KeyBK :> ShardP @@ KeyK :> ShardBare)

\* every caller looks packages up in RegA or in RegB
RunsShared ==
  { Run((RegA :> DocOne @@ RegB :> DocProv), sh, OneFailure, NoRules, <<>>,
        [c \in Callers |-> Lookups({<<RegA>>, <<RegB>>})]) :
      sh \in {Shards, ShardsBare} }

\* one caller, sharded registries, with and without credentials and cache
RunsShards ==
  { Run((RegA :> DocProv @@ RegB :> DocInc), sh, SomeFailures, rules, cache,
        Single(Lookups({<<RegA>>, <<RegA, RegB>>}))) :
      sh \in {Shards, ShardsBare},
      rules \in {NoRules, RulesA, RulesUser},
      cache \in {<<>>, CacheSame, CacheOld} }

\* one caller, several registries in turn
RunsFallback ==
  { Run((RegA :> DocAll @@ RegB :> DocFlat), Shards, AllFailures, NoRules, <<>>,
        Single(Lookups({<<>>, <<PackagistOrg, RegA>>, <<RegA, RegB>>,
                        <<RegB, RegA>>}))) }

\* one caller, a registry on the host packagist.org that is not the default
\* registry, and a fallback
RunsMirror ==
  { Run((RegO :> DocProv @@ RegB :> DocFlat), Shards, AllFailures, NoRules, <<>>,
        Single(Lookups({<<RegO>>, <<RegO, RegB>>}))) }

\* what the registry serves for the keys of DocMany(n)
ShardsMany(n) == [k \in {KeyBK, KeyK} \cup {KeyN(i) : i \in 1..n} |-> ShardQ]

\* one caller, a registry with as many shards as p-all runs at once, or more
RunsFanout ==
  { Run((RegA :> DocMany(n)), ShardsMany(n), OneFailure, NoRules, <<>>,
        Single([lookupName : {"q"}, registryUrls : {<<RegA>>}])) :
      n \in {MaxShards - 1, MaxShards} }

\* one caller, a registry with two includes files that both have package p
ShardsInc == (KeyBK :> ShardQ @@ KeyK :> ShardR)
RunsIncludes ==
  { Run((RegA :> DocIncTwo), ShardsInc, OneFailure, NoRules, <<>>,
        Single(Lookups({<<RegA>>}))) }

Runs == RunsShared \cup RunsShards \cup RunsFallback \cup RunsMirror
          \cup RunsFanout \cup RunsIncludes

\* ------------------------------------------------ inputs of the normalizer
\* version keys with no, one and two leading 'v', 'v' alone, and a 'v' that
\* does not lead
VersionKeys == { <<"1">>, <<"v", "1">>, <<"v", "v", "1">>, <<"v">>, <<"1", "v">> }
\* entries that differ in key and time
TimedEntries ==
  [version : VersionKeys, homepage : {Absent}, sourceUrl : {Absent},
   time : {Absent, "t1"}]
\* entries under the key v<i> that differ in homepage and source.url, each
\* absent, empty or one of two values
LinkedEntries(i) ==
  [version : {<<"v", Digits[i]>>}, homepage : {Absent, "", "h1", "h2"},
   sourceUrl : {Absent, "", "s1", "s2"}, time : {"t1"}]

SeqsUpTo(S, n) == UNION { [1..k -> S] : k \in 0..n }

\* the keys of an object are distinct
DistinctKeys(e) ==
  \A i, j \in 1..Len(e) : i # j => e[i].version # e[j].version

RawVersionMaps ==
  { VersionMap(e) :
      e \in { x \in SeqsUpTo(TimedEntries, MaxVersions) : DistinctKeys(x) } }
  \cup
  { VersionMap(e) :
      e \in { x \in SeqsUpTo(UNION { LinkedEntries(i) : i \in 1..MaxVersions },
                              MaxVersions) :
                \A i \in 1..Len(x) : x[i] \in LinkedEntries(i) } }

OnlyP(lists) == Single([lookupName : {"p"}, registryUrls : lists])

\* flat layout: package p with the raw version map vm
DocVersions(vm) ==
  [packages |-> ("p" :> vm), includes |-> <<>>, providerIncludes |-> <<>>,
   providers |-> EmptyMap, providersUrl |-> Absent]
RunsNormFlat ==
  { Run((RegA :> DocVersions(vm)), Shards, OneFailure, NoRules, <<>>,
        OnlyP({<<RegA>>})) : vm \in RawVersionMaps }

\* includes layout: the includes file has package p with no version map
\* (null), an empty one, or two versions
ShardOf(vm) == [hasProviders |-> FALSE, providers |-> EmptyMap,
                packages |-> ("p" :> vm)]
RunsNormInc ==
  { Run((RegA :> DocInc), (KeyK :> ShardOf(vm)), OneFailure, NoRules, <<>>,
        OnlyP({<<RegA>>})) : vm \in {Undefined, VersionMap(<<>>), VM2} }

\* provider layout without shards, and the default registry
DocProvOnly ==
  [packages |-> EmptyMap, includes |-> <<>>, providerIncludes |-> <<>>,
   providers |-> ("p" :> "h0"), providersUrl |-> "tpl"]
RunsNormOther ==
  { Run((RegA :> DocProvOnly), Shards, OneFailure, NoRules, <<>>,
        OnlyP({<<RegA>>, <<>>})) }

RunsNorm == RunsNormFlat \cup RunsNormInc \cup RunsNormOther

\* ------------------------------------------------------------ state
VARIABLES
  repoCache,   \* global.repoCache, by RepoKey(regUrl)
  filesCache,  \* renovateCache, namespace datasource-packagist-files
  orgCache,    \* renovateCache, namespace datasource-packagist-org
  hostRules,   \* what hostRules.find returns for a registry
  world,       \* what the registries serve, and the callers' lookups
  calls,       \* getReleases invocations so far
  call,        \* per getReleases invocation: position and locals
  inflight,    \* getPackagistFile calls that have started and not finished
  fetches,     \* network requests issued so far, per registry and kind
  cacheOps,    \* renovateCache.get / .set calls of getPackagistFile, per registry
  history,     \* terminal values written to repoCache, per registry, in order
  finished     \* a getAllPackages call has returned: [done, late] per registry

vars == <<repoCache, filesCache, orgCache, hostRules, world, calls, call,
          inflight, fetches, cacheOps, history, finished>>

NoMeta == [packages |-> EmptyMap, providersUrl |-> Absent, files |-> <<>>,
           includesFiles |-> <<>>, providerPackages |-> EmptyMap]

IdleCall ==
  [pc |-> "idle", lookupName |-> "", registries |-> <<>>, idx |-> 0,
   res |-> Undefined, queried |-> <<>>, results |-> <<>>,
   meta |-> NoMeta, resolvedFiles |-> <<>>, nextTask |-> 0, incIdx |-> 0,
   includesPackages |-> EmptyMap, incRes |-> NoBody,
   view |-> Undefined, lres |-> Undefined,
   waited |-> FALSE, obsEpoch |-> 0, pkgSent |-> 0,
   err |-> NoErr, readsRepo |-> FALSE, pkgBody |-> NoPkgBody]

\* the state after module load, for a run out of `runs`
InitRuns(runs) ==
  /\ repoCache = [k \in { RepoKey(u) : u \in AllUrls } |-> Undefined]
  /\ orgCache = [n \in Names |-> Undefined]
  /\ \E run \in runs :
       /\ world = [root |-> run.root, shard |-> run.shard,
                   failures |-> run.failures, workload |-> run.workload]
       /\ hostRules = run.hostRules
       /\ filesCache = run.filesCache
  /\ calls = 0
  /\ call = [c \in Callers |-> IdleCall]
  /\ inflight = {}
  /\ fetches = [u \in AllUrls |-> [root |-> 0, shard |-> 0, pkg |-> 0]]
  /\ cacheOps = [u \in AllUrls |-> [gets |-> 0, sets |-> 0]]
  /\ history = [u \in AllUrls |-> <<>>]
  /\ finished = [u \in AllUrls |-> [done |-> FALSE, late |-> FALSE]]

Init == InitRuns(Runs)

\* ------------------------------------------------------------ helpers
\* the errors a request for a registry may fail with
Errors(url) == { HttpError(f[1], f[2], url) : f \in world.failures }

\* getHostOpts: opts.auth is set only when username and password are both set
getHostOpts(url) ==
  LET rule == hostRules[url] IN
  [auth |-> IF TruthyStr(rule.username) /\ TruthyStr(rule.password)
            THEN "basic" ELSE Absent]

\* variant: the credentials are not looked at
AuthenticatedMut(opts) == FALSE

\* opts.auth || (opts.headers && opts.headers.authorization); getHostOpts
\* never sets headers
Authenticated(opts) == TruthyStr(opts.auth)

\* regUrl of the lookup a caller is in
RegUrlOf(s) == s.registries[s.idx]

\* the synchronous start of getPackagistFile(regUrl, file): with credentials
\* the request is sent at once, otherwise renovateCache.get is awaited first
NewTask(owner, url, kind, i, file) ==
  [owner |-> owner, url |-> url, kind |-> kind, idx |-> i,
   key |-> file.key, sha256 |-> file.sha256,
   stage |-> IF Authenticated(getHostOpts(url)) THEN "fetch" ELSE "cacheGet"]

Sent(tasks) == Cardinality({t \in tasks : t.stage = "fetch"})

Min(a, b) == IF a < b THEN a ELSE b

\* variant: every queued call is started at once
StartedMut(n) == n

\* p-all starts the first `concurrency` calls of a queue of n
Started(n) == Min(Concurrency, n)

\* variant: p-all resolves with the first result
JoinedMut(left) == TRUE

\* p-all resolves when no call of the queue is left to start or to finish
Joined(left) == left = {}

\* getRegistryMeta's projection of the root document
ProjectMeta(doc) ==
  [packages |-> doc.packages,
   providersUrl |-> IF TruthyStr(doc.providersUrl) THEN doc.providersUrl
                    ELSE Absent,
   files |-> doc.providerIncludes,
   includesFiles |-> doc.includes,
   providerPackages |-> doc.providers]

\* variant: an entry that is already there is kept
MergeMut(a, b) ==
  [n \in (DOMAIN a) \cup (DOMAIN b) |-> IF n \in DOMAIN a THEN a[n] ELSE b[n]]

\* b's entries written over a's
Merge(a, b) ==
  [n \in (DOMAIN a) \cup (DOMAIN b) |-> IF n \in DOMAIN b THEN b[n] ELSE a[n]]

\* the value getAllPackages stores and returns
AllPackages(s) ==
  [t |-> "view", packages |-> s.meta.packages,
   providersUrl |-> s.meta.providersUrl,
   providerPackages |-> s.meta.providerPackages,
   includesPackages |-> s.includesPackages]

\* locals of getAllPackages dropped when it returns or throws
DropLocals(s) ==
  [s EXCEPT !.meta = NoMeta, !.resolvedFiles = <<>>, !.nextTask = 0,
            !.incIdx = 0, !.includesPackages = EmptyMap, !.incRes = NoBody]

MarkDone(url) == [finished EXCEPT ![url].done = TRUE]

\* an exception leaves getAllPackages / the lookup and reaches packageLookup's
\* catch block
Caught(s, err) ==
  IF CatchLookup(err) = "throw"
  THEN [DropLocals(s) EXCEPT !.pc = "raised", !.view = Undefined,
                             !.pkgSent = 0, !.err = err,
                             !.results = Append(@, [t |-> "throw"])]
  ELSE [DropLocals(s) EXCEPT !.pc = "ret", !.lres = Null, !.err = err]

\* getAllPackages from its includes loop on: fetch includes file k, or, after
\* the last one, store the assembled view and return it.  infl and f are the
\* in-flight calls and request counts the step starts from.
IncludesLoop(c, s, k, infl, f) ==
  LET url == RegUrlOf(s) IN
  IF k <= Len(s.meta.includesFiles)
  THEN LET task == NewTask(c, url, "inc", k, s.meta.includesFiles[k]) IN
       /\ call' = [call EXCEPT ![c] = [s EXCEPT !.pc = "incFetch", !.incIdx = k]]
       /\ inflight' = infl \cup {task}
       /\ fetches' = [f EXCEPT ![url].shard = @ + Sent({task})]
       /\ UNCHANGED <<repoCache, history, finished>>
  ELSE /\ call' = [call EXCEPT ![c] =
                     [DropLocals(s) EXCEPT !.pc = "view", !.view = AllPackages(s)]]
       /\ repoCache' = [repoCache EXCEPT ![RepoKey(url)] = AllPackages(s)]
       /\ history' = [history EXCEPT ![url] = Append(@, AllPackages(s))]
       /\ finished' = MarkDone(url)
       /\ inflight' = infl
       /\ fetches' = f

\* ------------------------------------------------------------ actions
\* getReleases({lookupName, registryUrls}): an empty list means the default
\* registry
GetReleases(c, req) ==
  /\ call[c].pc \in {"idle", "done", "raised"}
  /\ calls < MaxCalls
  /\ calls' = calls + 1
  /\ call' = [call EXCEPT ![c] =
       [IdleCall EXCEPT !.pc = "lookup", !.lookupName = req.lookupName,
                        !.registries = IF req.registryUrls # <<>>
                                       THEN req.registryUrls
                                       ELSE <<PackagistOrg>>,
                        !.idx = 1]]
  /\ UNCHANGED <<repoCache, filesCache, orgCache, hostRules, world, inflight,
                 fetches, cacheOps, history, finished>>

\* variant: the 'pending' marker is not taken for an entry either
CachedMut(repoCacheResult) ==
  Truthy(repoCacheResult) /\ repoCacheResult # Pending

\* if (repoCacheResult): an entry that is unset or null is not used
Cached(repoCacheResult) == Truthy(repoCacheResult)

\* variant: no marker is installed
MarkerMut == Undefined

\* the marker getAllPackages installs before it fetches
Marker == Pending

\* variant: no registry takes the fast path
IsDefaultRegistryMut(regUrl) == FALSE

\* regUrl === 'https://packagist.org'
IsDefaultRegistry(regUrl) == regUrl = PackagistOrg

\* variant: a failed assembly leaves the entry unset
FailedEntryMut == Undefined

\* what getAllPackages stores when getRegistryMeta returned null
FailedEntry == Null

\* packageLookup(regUrl, name) up to its first await.  For a private registry
\* this is getAllPackages up to its first await: the cache read, and either
\* the wait loop, the return of the cached value, or the install of 'pending'
\* with the root request sent.
PackageLookupStart(c) ==
  LET s == call[c]
      url == RegUrlOf(s) IN
  /\ s.pc = "lookup"
  /\ IF IsDefaultRegistry(url)
     THEN /\ call' = [call EXCEPT ![c].pc = "orgGet",
                                  ![c].queried = Append(@, url)]
          /\ UNCHANGED <<repoCache, fetches, finished>>
     ELSE /\ finished' = [finished EXCEPT ![url].late = @ \/ finished[url].done]
          /\ IF Cached(repoCache[RepoKey(url)])
             THEN IF repoCache[RepoKey(url)] = Pending
                  THEN /\ call' = [call EXCEPT ![c].pc = "wait",
                                               ![c].readsRepo = TRUE,
                                               ![c].queried = Append(@, url),
                                               ![c].waited = TRUE,
                                               ![c].obsEpoch = fetches[url].root]
                       /\ UNCHANGED <<repoCache, fetches>>
                  ELSE /\ call' = [call EXCEPT ![c].pc = "view",
                                               ![c].readsRepo = TRUE,
                                               ![c].queried = Append(@, url),
                                               ![c].view = repoCache[RepoKey(url)]]
                       /\ UNCHANGED <<repoCache, fetches>>
             ELSE /\ repoCache' = [repoCache EXCEPT ![RepoKey(url)] = Marker]
                  /\ fetches' = [fetches EXCEPT ![url].root = @ + 1]
                  /\ call' = [call EXCEPT ![c].pc = "rootFetch",
                                          ![c].readsRepo = TRUE,
                                          ![c].queried = Append(@, url)]
  /\ UNCHANGED <<filesCache, orgCache, hostRules, world, calls, inflight, cacheOps, history>>

\* one turn of the wait loop: delay(200) has elapsed and the entry is re-read
Poll(c) ==
  LET s == call[c]
      url == RegUrlOf(s) IN
  /\ s.pc = "wait"
  /\ IF repoCache[RepoKey(url)] = Pending
     THEN UNCHANGED <<call, finished>>
     ELSE /\ call' = [call EXCEPT ![c].pc = "view",
                                  ![c].view = repoCache[RepoKey(url)]]
          /\ finished' = MarkDone(url)
  /\ UNCHANGED <<repoCache, filesCache, orgCache, hostRules, world, calls, inflight, fetches,
                 cacheOps, history>>

\* the root request of getRegistryMeta completes.  Every error, of the
\* request or (TypeError) of reading a malformed body, makes getRegistryMeta
\* return null; a document is projected and the shard fetches
\* start: the first Concurrency provider-includes files at once, or, without
\* any, the includes loop.
RootFetchDone(c) ==
  LET s == call[c]
      url == RegUrlOf(s) IN
  /\ s.pc = "rootFetch"
  /\ \/ \E err \in Errors(url) \cup {TypeError} :
          /\ repoCache' = [repoCache EXCEPT ![RepoKey(url)] = FailedEntry]
          /\ history' = [history EXCEPT ![url] = Append(@, FailedEntry)]
          /\ finished' = MarkDone(url)
          /\ call' = [call EXCEPT ![c].pc = "view", ![c].view = Null,
                                  ![c].err = err]
          /\ UNCHANGED <<inflight, fetches>>
     \/ LET meta == ProjectMeta(world.root[url])
              n == Len(meta.files)
              first == Started(n)
              tasks == { NewTask(c, url, "prov", i, meta.files[i]) : i \in 1..first }
              s1 == [s EXCEPT !.meta = meta,
                              !.resolvedFiles = [i \in 1..n |-> NoBody],
                              !.nextTask = first + 1] IN
          IF n > 0
          THEN /\ call' = [call EXCEPT ![c] = [s1 EXCEPT !.pc = "fanout"]]
               /\ inflight' = inflight \cup tasks
               /\ fetches' = [fetches EXCEPT ![url].shard = @ + Sent(tasks)]
               /\ UNCHANGED <<repoCache, history, finished>>
          ELSE IncludesLoop(c, s1, 1, inflight, fetches)
  /\ UNCHANGED <<filesCache, orgCache, hostRules, world, calls, cacheOps>>

\* variant: any stored record is a hit, whatever its hash
CacheHitMut(cache, cacheKey, sha256) == cacheKey \in DOMAIN cache

\* cachedResult && cachedResult.sha256 === sha256
CacheHit(cache, cacheKey, sha256) ==
  /\ cacheKey \in DOMAIN cache
  /\ cache[cacheKey].sha256 = sha256

\* a getPackagistFile call has produced its result `body`: the owner's p-all
\* slot starts the next queued file, or the includes loop resumes
Resolve(task, body, infl, f) ==
  LET c == task.owner
      s == call[c]
      url == task.url IN
  IF task.owner = 0
  THEN /\ inflight' = infl
       /\ fetches' = f
       /\ UNCHANGED call
  ELSE IF task.kind = "inc"
  THEN /\ call' = [call EXCEPT ![c].pc = "incDone", ![c].incRes = body]
       /\ inflight' = infl
       /\ fetches' = f
  ELSE LET resolved == [s.resolvedFiles EXCEPT ![task.idx] = body]
           more == s.nextTask <= Len(s.meta.files)
           next == IF more
                   THEN { NewTask(c, url, "prov", s.nextTask,
                                  s.meta.files[s.nextTask]) }
                   ELSE {}
           left == { t \in infl : t.owner = c } \cup next IN
       /\ call' = [call EXCEPT ![c].resolvedFiles = resolved,
                               ![c].nextTask = IF more THEN @ + 1 ELSE @,
                               ![c].pc = IF Joined(left) THEN "joined" ELSE "fanout"]
       /\ inflight' = infl \cup next
       /\ fetches' = [f EXCEPT ![url].shard = @ + Sent(next)]

\* a getPackagistFile call rejects: p-all rejects at once, the exception
\* leaves getAllPackages with the entry still 'pending', and the owner's other
\* started fetches go on without it
Reject(task, err, infl) ==
  LET c == task.owner IN
  IF task.owner = 0
  THEN /\ inflight' = infl
       /\ UNCHANGED <<call, finished>>
  ELSE /\ inflight' = { IF t.owner = c THEN [t EXCEPT !.owner = 0] ELSE t :
                        t \in infl }
       /\ call' = [call EXCEPT ![c] = Caught(call[c], err)]
       /\ finished' = MarkDone(task.url)

\* renovateCache.get of getPackagistFile returns
FileCacheGet(task) ==
  LET url == task.url
      cacheKey == CacheKey(url, task.key)
      infl == inflight \ {task} IN
  /\ task \in inflight
  /\ task.stage = "cacheGet"
  /\ cacheOps' = [cacheOps EXCEPT ![url].gets = @ + 1]
  /\ IF CacheHit(filesCache, cacheKey, task.sha256)
     THEN Resolve(task, filesCache[cacheKey].res, infl, fetches)
     ELSE /\ inflight' = infl \cup {[task EXCEPT !.stage = "fetch"]}
          /\ fetches' = [fetches EXCEPT ![url].shard = @ + 1]
          /\ UNCHANGED call
  /\ UNCHANGED <<repoCache, filesCache, orgCache, hostRules, world, calls, history, finished>>

\* the shard request of getPackagistFile completes; an anonymous call writes
\* the body through to the persistent cache
FileFetchDone(task) ==
  LET url == task.url
      cacheKey == CacheKey(url, task.key)
      infl == inflight \ {task} IN
  /\ task \in inflight
  /\ task.stage = "fetch"
  /\ \/ \E err \in Errors(url) :
          /\ Reject(task, err, infl)
          /\ UNCHANGED <<filesCache, cacheOps, fetches>>
     \/ LET body == world.shard[task.key] IN
          /\ IF Authenticated(getHostOpts(url))
             THEN UNCHANGED <<filesCache, cacheOps>>
             ELSE /\ filesCache' =
                       [k \in (DOMAIN filesCache) \cup {cacheKey} |->
                          IF k = cacheKey
                          THEN [res |-> body, sha256 |-> task.sha256]
                          ELSE filesCache[k]]
                  /\ cacheOps' = [cacheOps EXCEPT ![url].sets = @ + 1]
          /\ Resolve(task, body, infl, fetches)
          /\ UNCHANGED finished
  /\ UNCHANGED <<repoCache, orgCache, hostRules, world, calls, history>>

RECURSIVE MergeProviders(_, _)
\* for (const res of resolvedFiles) ... providerPackages[name] = val.sha256
MergeProviders(providerPackages, resolvedFiles) ==
  IF resolvedFiles = <<>> THEN providerPackages
  ELSE MergeProviders(Merge(providerPackages, Head(resolvedFiles).providers),
                      Tail(resolvedFiles))

\* p-all has resolved: the shards' providers are merged in list order
\* (Object.entries of a missing `providers` throws), then the includes loop
\* starts
Join(c) ==
  LET s == call[c]
      url == RegUrlOf(s) IN
  /\ s.pc = "joined"
  /\ IF \E i \in 1..Len(s.resolvedFiles) : ~s.resolvedFiles[i].hasProviders
     THEN /\ call' = [call EXCEPT ![c] = Caught(s, TypeError)]
          /\ finished' = MarkDone(url)
          /\ UNCHANGED <<repoCache, history, inflight, fetches>>
     ELSE IncludesLoop(c,
            [s EXCEPT !.meta.providerPackages =
                        MergeProviders(@, s.resolvedFiles)],
            1, inflight, fetches)
  /\ UNCHANGED <<filesCache, orgCache, hostRules, world, calls, cacheOps>>

\* variant: every other includes file is left out
NextIncludeMut(k) == k + 2

\* for (const file of includesFiles): the file after file k
NextInclude(k) == k + 1

\* includes file incIdx has been fetched: its packages are normalised and
\* merged, and the loop goes on
IncludesMerge(c) ==
  LET s == call[c]
      pkgs == s.incRes.packages
      deps == [n \in DOMAIN pkgs |-> extractDepReleases(pkgs[n], n)] IN
  /\ s.pc = "incDone"
  /\ IncludesLoop(c,
       [s EXCEPT !.includesPackages = Merge(@, deps), !.incRes = NoBody],
       NextInclude(s.incIdx), inflight, fetches)
  /\ UNCHANGED <<filesCache, orgCache, hostRules, world, calls, cacheOps>>

\* variant: the includes packages are looked at before the flat ones
LayoutMut(v, name) ==
  IF name \in DOMAIN v.includesPackages THEN "includes"
  ELSE IF name \in DOMAIN v.packages THEN "flat"
  ELSE IF name \in DOMAIN v.providerPackages THEN "provider"
  ELSE "none"

\* the layout packageLookup resolves `name` with: flat packages first, then
\* the includes packages, then the provider packages
Layout(v, name) ==
  IF name \in DOMAIN v.packages THEN "flat"
  ELSE IF name \in DOMAIN v.includesPackages THEN "includes"
  ELSE IF name \in DOMAIN v.providerPackages THEN "provider"
  ELSE "none"

\* variant: the per-package document is not requested
SendPkgMut(f, url) == f

\* http.getJson(pkgUrl, opts): one request for the per-package document
SendPkg(f, url) == [f EXCEPT ![url].pkg = @ + 1]

\* packageLookup after getAllPackages has returned.  A view without
\* providers-url makes providersUrl.replace throw.
LayoutResolve(c) ==
  LET s == call[c]
      url == RegUrlOf(s)
      name == s.lookupName
      v == s.view
      s1 == [s EXCEPT !.waited = FALSE, !.obsEpoch = 0, !.err = NoErr]
      layout == IF Truthy(v) THEN Layout(v, name) ELSE "none" IN
  /\ s.pc = "view"
  /\ IF layout = "flat"
     THEN /\ call' = [call EXCEPT ![c] =
                 [s1 EXCEPT !.pc = "ret",
                            !.lres = extractDepReleases(v.packages[name], name)]]
          /\ UNCHANGED fetches
     ELSE IF layout = "includes"
     THEN /\ call' = [call EXCEPT ![c] =
                 [s1 EXCEPT !.pc = "ret", !.lres = v.includesPackages[name]]]
          /\ UNCHANGED fetches
     ELSE IF layout = "none"
     THEN /\ call' = [call EXCEPT ![c] = [s1 EXCEPT !.pc = "ret", !.lres = Null]]
          /\ UNCHANGED fetches
     ELSE IF v.providersUrl = Absent
     THEN /\ call' = [call EXCEPT ![c] = Caught(s1, TypeError)]
          /\ UNCHANGED fetches
     ELSE /\ call' = [call EXCEPT ![c] =
                 [s1 EXCEPT !.pc = "provFetch", !.pkgSent = @ + 1]]
          /\ fetches' = SendPkg(fetches, url)
  /\ UNCHANGED <<repoCache, filesCache, orgCache, hostRules, world, calls,
                 inflight, cacheOps, history, finished>>

\* body.packages[name] of a per-package document; a body without `packages`
\* makes the property access throw
PackageEntry(body, name) ==
  IF name \in DOMAIN body.packages THEN body.packages[name] ELSE Undefined

\* variant: as in packagistOrgLookup, a missing entry gives null
ProviderDepMut(versions, name) ==
  IF Truthy(versions) THEN extractDepReleases(versions, name) ELSE Null

\* const dep = extractDepReleases(versions); dep.name = name
ProviderDep(versions, name) == extractDepReleases(versions, name)

\* the per-package request of the provider layout completes; pkgBody keeps
\* the document that was received
ProvFetchDone(c) ==
  LET s == call[c]
      url == RegUrlOf(s)
      name == s.lookupName IN
  /\ s.pc = "provFetch"
  /\ \/ \E err \in Errors(url) :
          call' = [call EXCEPT ![c] = Caught(s, err)]
     \/ \E body \in PkgBodies(name) :
          call' = [call EXCEPT ![c] =
            IF ~body.hasPackages THEN Caught(s, TypeError)
            ELSE [s EXCEPT !.pc = "ret", !.pkgBody = body,
                           !.lres = ProviderDep(PackageEntry(body, name), name)]]
  /\ UNCHANGED <<repoCache, filesCache, orgCache, hostRules, world, calls, inflight, fetches,
                 cacheOps, history, finished>>

\* packagistOrgLookup: renovateCache.get returns; a truthy record is the
\* result, otherwise /p/<name>.json is requested
OrgCacheGet(c) ==
  LET s == call[c]
      name == s.lookupName IN
  /\ s.pc = "orgGet"
  /\ IF Truthy(orgCache[name])
     THEN /\ call' = [call EXCEPT ![c].pc = "ret", ![c].lres = orgCache[name]]
          /\ UNCHANGED fetches
     ELSE /\ call' = [call EXCEPT ![c].pc = "orgFetch"]
          /\ fetches' = [fetches EXCEPT ![PackagistOrg].pkg = @ + 1]
  /\ UNCHANGED <<repoCache, filesCache, orgCache, hostRules, world, calls, inflight,
                 cacheOps, history, finished>>

\* packagistOrgLookup: the request completes; dep (null when the package is
\* absent) is stored for 10 minutes and returned
OrgFetchDone(c) ==
  LET s == call[c]
      name == s.lookupName IN
  /\ s.pc = "orgFetch"
  /\ \/ \E err \in Errors(PackagistOrg) :
          /\ call' = [call EXCEPT ![c] = Caught(s, err)]
          /\ UNCHANGED orgCache
     \/ \E body \in PkgBodies(name) :
          LET res == PackageEntry(body, name)
              dep == IF ~Truthy(res) THEN Null
                     ELSE extractDepReleases(res, name) IN
          IF ~body.hasPackages
          THEN /\ call' = [call EXCEPT ![c] = Caught(s, TypeError)]
               /\ UNCHANGED orgCache
          ELSE /\ call' = [call EXCEPT ![c].pc = "ret", ![c].lres = dep]
               /\ orgCache' = [orgCache EXCEPT ![name] = dep]
  /\ UNCHANGED <<repoCache, filesCache, hostRules, world, calls, inflight, fetches,
                 cacheOps, history, finished>>

\* variant: the loop never stops early
StopMut(res) == FALSE

\* if (res) break
Stop(res) == Truthy(res)

\* variant: only a truthy lookup result is kept
AssignMut(res, lres) == IF Truthy(lres) THEN lres ELSE res

\* res = await packageLookup(regUrl, lookupName)
Assign(res, lres) == lres

\* getReleases resumes with packageLookup's result: a truthy result ends the
\* loop, otherwise the next registry is tried; after the last one res is
\* returned as it is
LookupReturn(c) ==
  LET s == call[c]
      last == s.idx = Len(s.registries)
      res == Assign(s.res, s.lres)
      s1 == [s EXCEPT !.res = res, !.results = Append(@, s.lres),
                      !.lres = Undefined, !.view = Undefined, !.pkgSent = 0,
                      !.err = NoErr, !.readsRepo = FALSE] IN
  /\ s.pc = "ret"
  /\ call' = [call EXCEPT ![c] =
       IF Stop(res) \/ last
       THEN [s1 EXCEPT !.pc = "done"]
       ELSE [s1 EXCEPT !.pc = "lookup", !.idx = @ + 1,
                       !.pkgBody = NoPkgBody]]
  /\ UNCHANGED <<repoCache, filesCache, orgCache, hostRules, world, calls,
                 inflight, fetches, cacheOps, history, finished>>

Next ==
  \/ \E c \in Callers : \E req \in world.workload[c] : GetReleases(c, req)
  \/ \E c \in Callers : PackageLookupStart(c)
  \/ \E c \in Callers : Poll(c)
  \/ \E c \in Callers : RootFetchDone(c)
  \/ \E task \in inflight : FileCacheGet(task)
  \/ \E task \in inflight : FileFetchDone(task)
  \/ \E c \in Callers : Join(c)
  \/ \E c \in Callers : IncludesMerge(c)
  \/ \E c \in Callers : LayoutResolve(c)
  \/ \E c \in Callers : ProvFetchDone(c)
  \/ \E c \in Callers : OrgCacheGet(c)
  \/ \E c \in Callers : OrgFetchDone(c)
  \/ \E c \in Callers : LookupReturn(c)

Spec == Init /\ [][Next]_vars

\* Every request that was sent completes and every continuation that is ready
\* runs; new getReleases calls need not be issued.
Fairness ==
  /\ \A c \in Callers :
       /\ WF_vars(PackageLookupStart(c))
       /\ WF_vars(Poll(c))
       /\ WF_vars(RootFetchDone(c))
       /\ WF_vars(Join(c))
       /\ WF_vars(IncludesMerge(c))
       /\ WF_vars(LayoutResolve(c))
       /\ WF_vars(ProvFetchDone(c))
       /\ WF_vars(OrgCacheGet(c))
       /\ WF_vars(OrgFetchDone(c))
       /\ WF_vars(LookupReturn(c))
  /\ WF_vars(\E task \in inflight : FileCacheGet(task))
  /\ WF_vars(\E task \in inflight : FileFetchDone(task))

FairSpec == Spec /\ Fairness

\* One caller resolving package p from registries that serve the inputs of
\* the normalizer: the steps of getReleases that such a run can take.
NormInit == InitRuns(RunsNorm)

NormNext ==
  \/ \E c \in Callers : \E req \in world.workload[c] : GetReleases(c, req)
  \/ \E c \in Callers : PackageLookupStart(c)
  \/ \E c \in Callers : RootFetchDone(c)
  \/ \E task \in inflight : FileCacheGet(task)
  \/ \E task \in inflight : FileFetchDone(task)
  \/ \E c \in Callers : IncludesMerge(c)
  \/ \E c \in Callers : LayoutResolve(c)
  \/ \E c \in Callers : ProvFetchDone(c)
  \/ \E c \in Callers : OrgCacheGet(c)
  \/ \E c \in Callers : OrgFetchDone(c)
  \/ \E c \in Callers : LookupReturn(c)

NormSpec == NormInit /\ [][NormNext]_vars

\* ------------------------------------------------------------ properties
\* caller c is inside getAllPackages(url) between the install of the marker
\* and the write of the terminal value
Assembling(c, url) ==
  /\ call[c].pc \in {"rootFetch", "fanout", "joined", "incFetch", "incDone"}
  /\ RegUrlOf(call[c]) = url

\* caller c is in a lookup against url
LooksUp(c, url) ==
  /\ call[c].pc \notin {"idle", "lookup", "done", "raised"}
  /\ RegUrlOf(call[c]) = url

HasCredentials(url) ==
  /\ TruthyStr(hostRules[url].username)
  /\ TruthyStr(hostRules[url].password)

\* C1: as long as every lookup against a private registry was issued before
\* any other lookup against it had returned (the lookups are concurrent),
\* exactly one root document fetch has been sent for it, whatever the
\* outcome of that fetch.
C1_OneRootFetch ==
  \A url \in RegUrls :
    ((\E c \in Callers : LooksUp(c, url)) /\ ~finished[url].late)
      => fetches[url].root = 1

\* two concurrent lookups, the root fetch has failed and the waiter has left
\* the wait loop
C1_Witness ==
  \E url \in RegUrls, c \in Callers :
    /\ ~finished[url].late
    /\ history[url] = <<Null>>
    /\ call[c].pc = "view" /\ call[c].waited /\ RegUrlOf(call[c]) = url
    /\ fetches[url].root = 1

\* C2: at most one caller at a time is between the install of 'pending' and
\* the write of the terminal value for a registry, and the entry is 'pending'
\* while it is.
C2_OneAssembler ==
  \A url \in RegUrls :
    /\ Cardinality({c \in Callers : Assembling(c, url)}) <= 1
    /\ (\E c \in Callers : Assembling(c, url)) => repoCache[RepoKey(url)] = Pending

\* one caller assembles while another waits for the same registry
C2_Witness ==
  \E url \in RegUrls, c, d \in Callers :
    /\ Assembling(c, url) /\ call[c].pc = "fanout"
    /\ call[d].pc = "wait" /\ RegUrlOf(call[d]) = url

\* C3: once the entry of a registry holds a terminal value (a view or null)
\* no step changes it.
C3_TerminalIsPermanent ==
  [][\A url \in RegUrls :
       repoCache[RepoKey(url)].t \in {"view", "null"}
         => repoCache'[RepoKey(url)] = repoCache[RepoKey(url)]]_vars

\* C4: whenever the entry of a registry is 'pending' it eventually is not.
C4_PendingEnds ==
  \A url \in RegUrls :
    (repoCache[RepoKey(url)] = Pending) ~> (repoCache[RepoKey(url)] # Pending)

\* C5: a caller that saw 'pending' and waited returns the terminal value
\* written by the assembly it waited for.
C5_WaiterGetsAssemblersValue ==
  \A c \in Callers :
    (call[c].pc = "view" /\ call[c].waited)
      => /\ Len(history[RegUrlOf(call[c])]) >= call[c].obsEpoch
         /\ call[c].view = history[RegUrlOf(call[c])][call[c].obsEpoch]

\* what the registry serves for file i of a list of shard descriptors
Served(files, i) == world.shard[files[i].key]

\* C6: for a registry with username and password no renovateCache.get and no
\* renovateCache.set is made, and the shard content getPackagistFile returns
\* is what the registry serves for that file.
C6_AuthBypassesCache ==
  \A url \in RegUrls :
    HasCredentials(url) =>
      /\ cacheOps[url].gets = 0
      /\ cacheOps[url].sets = 0
      /\ \A c \in Callers :
           LET s == call[c] IN
           Assembling(c, url) =>
             /\ \A i \in 1..Len(s.resolvedFiles) :
                  s.resolvedFiles[i] \in {NoBody, Served(s.meta.files, i)}
             /\ s.pc = "incDone"
                  => s.incRes = Served(s.meta.includesFiles, s.incIdx)

\* an authenticated shard fetch has completed while the persistent cache
\* holds a record with the requested hash and other content
C6_Witness ==
  \E c \in Callers :
    /\ HasCredentials(RegA) /\ Assembling(c, RegA)
    /\ CacheKey(RegA, KeyBK) \in DOMAIN filesCache
    /\ filesCache[CacheKey(RegA, KeyBK)] = [res |-> ShardQ, sha256 |-> "h1"]
    /\ call[c].resolvedFiles # <<>>
    /\ call[c].resolvedFiles[1] = ShardP

\* the content a step hands to the caller of the getPackagistFile call `task`
Handed(task) ==
  IF task.kind = "inc" THEN call'[task.owner].incRes
  ELSE call'[task.owner].resolvedFiles[task.idx]

\* C7: when renovateCache.get of an anonymous getPackagistFile call returns,
\* the shard is requested from the network if and only if no record with the
\* requested hash is stored under regUrl + key; without a request the stored
\* content is returned.  When the request completes, the fetched body is
\* returned and stored with the requested hash.
C7_FetchIffHashDiffers ==
  [][\A task \in inflight :
       LET url == task.url
           k == CacheKey(url, task.key)
           same == k \in DOMAIN filesCache /\ filesCache[k].sha256 = task.sha256 IN
       /\ (/\ task.stage = "cacheGet"
           /\ task \notin inflight'
           /\ cacheOps'[url].gets = cacheOps[url].gets + 1)
          => /\ same => /\ fetches'[url].shard = fetches[url].shard
                        /\ task.owner # 0 => Handed(task) = filesCache[k].res
                        /\ filesCache' = filesCache
             /\ ~same => /\ fetches'[url].shard = fetches[url].shard + 1
                         /\ [task EXCEPT !.stage = "fetch"] \in inflight'
       /\ (/\ task.stage = "fetch"
           /\ task \notin inflight'
           /\ ~HasCredentials(url)
           /\ cacheOps'[url].sets = cacheOps[url].sets + 1)
          => /\ filesCache'[k] = [res |-> world.shard[task.key],
                                  sha256 |-> task.sha256]
             /\ task.owner # 0 => Handed(task) = world.shard[task.key]]_vars

\* an anonymous call found a record with its hash and returned the stored
\* content, which is not what the registry serves now, without a request
C7_Witness ==
  \E c \in Callers :
    /\ ~HasCredentials(RegA) /\ Assembling(c, RegA)
    /\ call[c].resolvedFiles # <<>>
    /\ call[c].resolvedFiles[1] = ShardQ
    /\ world.shard[KeyBK] = ShardP
    /\ cacheOps[RegA].gets = 1
    /\ fetches[RegA].shard = 0

\* C8: a lookup that got a view resolves the name with the flat entry when
\* there is one, else with the includes entry when there is one, and sends a
\* per-package request only when the name is in neither and is a provider
\* package.
C8_LayoutPriority ==
  \A c \in Callers :
    LET s == call[c]
        name == s.lookupName
        v == s.view IN
    (s.pc \in {"provFetch", "ret"} /\ Truthy(v)) =>
      /\ name \in DOMAIN v.packages
           => /\ s.pc = "ret"
              /\ s.lres = extractDepReleases(v.packages[name], name)
              /\ s.pkgSent = 0
      /\ (name \notin DOMAIN v.packages /\ name \in DOMAIN v.includesPackages)
           => /\ s.pc = "ret"
              /\ s.lres = v.includesPackages[name]
              /\ s.pkgSent = 0
      /\ (s.pkgSent > 0 \/ s.pc = "provFetch")
           => /\ name \notin DOMAIN v.packages
              /\ name \notin DOMAIN v.includesPackages
              /\ name \in DOMAIN v.providerPackages

\* the name is in all three layouts and the flat entry was returned
C8_Witness ==
  \E c \in Callers :
    LET s == call[c] IN
    /\ s.pc = "ret" /\ Truthy(s.view)
    /\ s.lookupName \in DOMAIN s.view.packages
    /\ s.lookupName \in DOMAIN s.view.includesPackages
    /\ s.lookupName \in DOMAIN s.view.providerPackages
    /\ s.lres # s.view.includesPackages[s.lookupName]
    /\ Truthy(s.lres)

\* C9: when getReleases has returned, the registries queried are a prefix of
\* the given list in its order, every lookup but the last returned null, the
\* result is the last lookup's, and the list was cut short only by a
\* non-null result.
C9_FirstNonNullWins ==
  \A c \in Callers :
    LET s == call[c]
        k == Len(s.results) IN
    s.pc = "done" =>
      /\ k >= 1 /\ k <= Len(s.registries)
      /\ s.queried = SubSeq(s.registries, 1, k)
      /\ \A i \in 1..(k - 1) : s.results[i] = Null
      /\ s.res = s.results[k]
      /\ k < Len(s.registries) => s.results[k].t = "dep"

\* the first registry failed softly, the second resolved the package
C9_Witness ==
  \E c \in Callers :
    LET s == call[c] IN
    /\ s.pc = "done"
    /\ Len(s.registries) = 2
    /\ s.registries[1] # s.registries[2]
    /\ s.results[1] = Null
    /\ s.res.t = "dep"
    /\ history[s.registries[1]] = <<Null>>

\* every lookup of a finished getReleases call returned null
AllSoftFailed(s) ==
  /\ s.pc \in {"done", "raised"}
  /\ Len(s.results) = Len(s.registries)
  /\ \A i \in 1..Len(s.results) : s.results[i] = Null

\* C10 as stated: when every registry fails softly the result is undefined.
C10_ResultUndefined ==
  \A c \in Callers :
    AllSoftFailed(call[c]) => (call[c].pc = "done" /\ call[c].res = Undefined)

\* C10: when every registry fails softly getReleases returns, and its result
\* is null.
C10_ResultNull ==
  \A c \in Callers :
    AllSoftFailed(call[c]) => (call[c].pc = "done" /\ call[c].res = Null)

\* the default registry's document has no entry for the package
C10_Witness ==
  \E c \in Callers :
    /\ AllSoftFailed(call[c])
    /\ call[c].registries = <<PackagistOrg>>
    /\ orgCache[call[c].lookupName] = Null
    /\ fetches[PackagistOrg].pkg > 0

\* the request of a lookup against the default registry has failed
OrgFailed(s) ==
  /\ s.pc \in {"ret", "raised"}
  /\ s.err # NoErr
  /\ RegUrlOf(s) = PackagistOrg

\* C11: when the per-package request of a lookup against the default registry
\* fails with connection reset, timeout or a status in 500..599, the lookup
\* and getReleases raise; when it fails with 404 or DNS-not-found, the lookup
\* returns null.
C11_DefaultRegistryEscalates ==
  \A c \in Callers :
    LET s == call[c] IN
    OrgFailed(s) =>
      /\ (\/ s.err.code \in {"ECONNRESET", "ETIMEDOUT"}
          \/ s.err.statusCode \in 500..599)
           => /\ s.pc = "raised"
              /\ s.results[Len(s.results)] = [t |-> "throw"]
      /\ (s.err.statusCode = 404 \/ s.err.code = "ENOTFOUND")
           => (s.pc = "ret" /\ s.lres = Null)

\* a request to the default registry was answered with status 599 and
\* getReleases has raised
C11_Witness ==
  \E c \in Callers :
    /\ OrgFailed(call[c])
    /\ call[c].err.statusCode = 599
    /\ call[c].pc = "raised"
    /\ fetches[PackagistOrg].pkg > 0
\* C12: a lookup against a registry URL other than 'https://packagist.org'
\* never raises, whatever request failed and whatever host it went to.
C12_PrivateNeverRaises ==
  \A c \in Callers :
    call[c].pc = "raised" => RegUrlOf(call[c]) = PackagistOrg
\* C13: whatever the root request or the reading of its body fails with,
\* getRegistryMeta returns null instead of raising: in that step
\* getAllPackages stores null for the registry and returns null, and no shard
\* request or cache access is started.
C13_RootFailureIsSoft ==
  [][\A c \in Callers :
       (/\ call[c].pc = "rootFetch"
        /\ call'[c].pc # "rootFetch"
        /\ call'[c].err # NoErr)
         => /\ call'[c].pc = "view"
            /\ call'[c].view = Null
            /\ repoCache'[RepoKey(RegUrlOf(call[c]))] = Null
            /\ inflight' = inflight
            /\ fetches' = fetches
            /\ cacheOps' = cacheOps]_vars

\* the root request of a registry with provider-includes files was answered
\* with 401: the entry is null and no shard was requested
C13_Witness ==
  \E c \in Callers :
    /\ call[c].pc = "view"
    /\ call[c].err = HttpError(401, "", RegUrlOf(call[c]))
    /\ call[c].view = Null
    /\ repoCache[RepoKey(RegUrlOf(call[c]))] = Null
    /\ world.root[RegUrlOf(call[c])].providerIncludes # <<>>
    /\ fetches[RegUrlOf(call[c])].shard = 0
\* caller c is in a lookup against the default registry and takes a step
OrgStep(c) ==
  /\ call[c].pc \in {"lookup", "orgGet", "orgFetch"}
  /\ RegUrlOf(call[c]) = PackagistOrg
  /\ call'[c] # call[c]

\* C14: no step of a lookup against the default registry reads or writes
\* global.repoCache, sends a root or shard request, or starts a
\* getPackagistFile call, whether the package is found, is absent or the
\* request fails.
C14_DefaultRegistryFrame ==
  [][\A c \in Callers :
       OrgStep(c) =>
         /\ repoCache' = repoCache
         /\ history' = history
         /\ ~call'[c].readsRepo
         /\ inflight' = inflight
         /\ cacheOps' = cacheOps
         /\ \A u \in AllUrls : /\ fetches'[u].root = fetches[u].root
                                /\ fetches'[u].shard = fetches[u].shard]_vars

\* a lookup against the default registry has found the package while the
\* entry of a private registry holds a view; nothing was sent for a root
\* document or a shard of the default registry, which has no entry
C14_Witness ==
  \E c \in Callers :
    /\ call[c].pc = "ret"
    /\ RegUrlOf(call[c]) = PackagistOrg
    /\ call[c].lres.t = "dep"
    /\ repoCache[RepoKey(RegA)].t = "view"
    /\ repoCache[RepoKey(PackagistOrg)] = Undefined
    /\ fetches[PackagistOrg] = [root |-> 0, shard |-> 0, pkg |-> 1]
\* C15: once a lookup of a name against the default registry has completed
\* without error (its record is stored), a later lookup of the name sends no
\* request and returns the stored result, whether the package was found or
\* was absent.
C15_OrgCacheServes ==
  [][\A c \in Callers :
       (/\ call[c].pc = "orgGet"
        /\ call'[c].pc # "orgGet"
        /\ orgCache[call[c].lookupName] # Undefined)
         => /\ call'[c].pc = "ret"
            /\ call'[c].lres = orgCache[call[c].lookupName]
            /\ fetches' = fetches]_vars
\* the raw version map the registry serves for a name, in its flat packages
\* or in its first includes file
RawVersions(url, name) ==
  LET doc == world.root[url] IN
  IF name \in DOMAIN doc.packages THEN doc.packages[name]
  ELSE world.shard[doc.includes[1].key].packages[name]

\* a lookup has returned the normalised form of a raw version map the
\* registry serves
Normalised(s) ==
  /\ s.pc = "ret"
  /\ Truthy(s.view)
  /\ Layout(s.view, s.lookupName) \in {"flat", "includes"}

Last(S) == CHOOSE i \in S : \A j \in S : j <= i

\* C16: the releases of a normalised version map are one per key, in key
\* order; gitRef is the key, releaseTimestamp the entry's time, and version
\* the key without its first character when that is 'v', else the key.
C16_OneReleasePerKey ==
  \A c \in Callers :
    LET s == call[c]
        raw == RawVersions(RegUrlOf(s), s.lookupName) IN
    (Normalised(s) /\ Truthy(raw)) =>
      LET e == raw.entries
          r == s.lres.releases.items IN
      /\ Len(r) = Len(e)
      /\ \A i \in 1..Len(e) :
           /\ r[i].gitRef = e[i].version
           /\ r[i].releaseTimestamp = e[i].time
           /\ Head(e[i].version) = "v" => <<"v">> \o r[i].version = e[i].version
           /\ Head(e[i].version) # "v" => r[i].version = e[i].version

\* the keys '1' and 'vv1' were normalised to '1' and 'v1', in that order
C16_Witness ==
  \E c \in Callers :
    LET s == call[c] IN
    /\ Normalised(s)
    /\ s.lres.releases.items =
         << [version |-> <<"1">>, gitRef |-> <<"1">>,
             releaseTimestamp |-> "t1"],
            [version |-> <<"v", "1">>, gitRef |-> <<"v", "v", "1">>,
             releaseTimestamp |-> Absent] >>

\* C17: homepage is the homepage of the last entry with a non-empty
\* homepage and sourceUrl the source.url of the last entry with a non-empty
\* source.url; each is absent when no entry has one.
C17_LastDefinedWins ==
  \A c \in Callers :
    LET s == call[c]
        raw == RawVersions(RegUrlOf(s), s.lookupName) IN
    (Normalised(s) /\ Truthy(raw)) =>
      LET e == raw.entries
          hp == { i \in 1..Len(e) : e[i].homepage \notin {Absent, ""} }
          su == { i \in 1..Len(e) : e[i].sourceUrl \notin {Absent, ""} } IN
      /\ s.lres.homepage = IF hp = {} THEN Absent ELSE e[Last(hp)].homepage
      /\ s.lres.sourceUrl = IF su = {} THEN Absent ELSE e[Last(su)].sourceUrl

\* the first entry has a homepage and the last has none, the last entry has
\* a source.url that replaces the first one's
C17_Witness ==
  \E c \in Callers :
    LET s == call[c]
        raw == RawVersions(RegUrlOf(s), s.lookupName) IN
    /\ Normalised(s) /\ Truthy(raw) /\ Len(raw.entries) = 2
    /\ raw.entries[1].homepage = "h1" /\ raw.entries[2].homepage = Absent
    /\ raw.entries[1].sourceUrl = "s1" /\ raw.entries[2].sourceUrl = "s2"
    /\ s.lres.homepage = "h1"
    /\ s.lres.sourceUrl = "s2"

\* C18: the releases of every result a lookup returns and of every result
\* getReleases returns are an array, not null; a version map that is absent
\* or empty gives a result with no releases, without an error.
C18_ReleasesNeverNull ==
  \A c \in Callers :
    LET s == call[c]
        raw == RawVersions(RegUrlOf(s), s.lookupName) IN
    /\ (s.pc = "ret" /\ Truthy(s.lres)) => s.lres.releases.t = "array"
    /\ (s.pc = "done" /\ Truthy(s.res)) => s.res.releases.t = "array"
    /\ (Normalised(s) /\ (~Truthy(raw) \/ raw.entries = <<>>))
         => /\ s.err = NoErr
            /\ Truthy(s.lres)
            /\ s.lres.releases = Array(<<>>)

\* the includes file has no version map for the package and the lookup has
\* returned a result without releases
C18_Witness ==
  \E c \in Callers :
    LET s == call[c] IN
    /\ Normalised(s)
    /\ Layout(s.view, s.lookupName) = "includes"
    /\ RawVersions(RegUrlOf(s), s.lookupName) = Undefined
    /\ s.lres.releases = Array(<<>>)
\* the getPackagistFile calls of the fan-out of caller c's assembly of url
\* that have started and not completed (owner 0: the assembly was left by an
\* exception)
FanOut(c, url) ==
  { t \in inflight : t.owner = c /\ t.url = url /\ t.kind = "prov" }

\* C19: at most 5 getPackagistFile calls of the fan-out of one assembly have
\* started and not completed.
C19_AtMostFiveInFlight ==
  \A c \in Callers \cup {0} : \A url \in RegUrls :
    Cardinality(FanOut(c, url)) <= 5

\* six shards: the first has completed, five are in flight and none is left
\* to start
C19_Witness ==
  \E c \in Callers :
    /\ call[c].pc = "fanout"
    /\ Len(call[c].meta.files) = 6
    /\ call[c].resolvedFiles[1] # NoBody
    /\ call[c].nextTask = 7
    /\ Cardinality(FanOut(c, RegUrlOf(call[c]))) = 5

\* C20: while a provider-includes shard fetch of an assembly has not
\* completed, the entry of the registry is 'pending', the assembling call is
\* still awaiting the fan-out, no shard's providers have been merged, and no
\* includes file has been fetched or is being fetched; and when the fan-out
\* is over every shard has its result.
C20_JoinBeforeAssembly ==
  /\ \A t \in inflight :
       t.kind = "prov" =>
         /\ repoCache[RepoKey(t.url)] = Pending
         /\ t.owner # 0 =>
              LET s == call[t.owner] IN
              /\ s.pc = "fanout"
              /\ s.meta.providerPackages = world.root[t.url].providers
              /\ s.includesPackages = EmptyMap
              /\ s.incIdx = 0
              /\ \A u \in inflight : u.owner = t.owner => u.kind = "prov"
  /\ \A c \in Callers :
       call[c].pc = "joined" =>
         \A i \in 1..Len(call[c].resolvedFiles) :
           call[c].resolvedFiles[i] # NoBody

\* the second shard has completed first and names providers, the first is
\* still in flight, and nothing is merged
C20_Witness ==
  \E c \in Callers :
    LET s == call[c] IN
    /\ s.pc = "fanout"
    /\ Len(s.resolvedFiles) = 2
    /\ s.resolvedFiles[1] = NoBody
    /\ s.resolvedFiles[2] = ShardQ
    /\ s.meta.providerPackages = ("q" :> "h0")
    /\ repoCache[RepoKey(RegUrlOf(s))] = Pending
\* C21: when the fan-out of an assembly is over, the provider hashes that
\* getAllPackages goes on with are, for every name, the hash given by the
\* last shard in descriptor order that names it, or the root document's when
\* no shard does, whatever order the shard fetches completed in.
C21_MergeInDescriptorOrder ==
  [][\A c \in Callers :
       (call[c].pc = "joined" /\ call'[c].pc \in {"incFetch", "view"}) =>
         LET files == call[c].resolvedFiles
             root == world.root[RegUrlOf(call[c])].providers
             after == IF call'[c].pc = "view"
                      THEN call'[c].view.providerPackages
                      ELSE call'[c].meta.providerPackages
             names == (DOMAIN root) \cup
                        UNION { DOMAIN files[i].providers : i \in 1..Len(files) } IN
         /\ DOMAIN after = names
         /\ \A n \in names :
              LET has == { i \in 1..Len(files) : n \in DOMAIN files[i].providers } IN
              after[n] = IF has = {} THEN root[n]
                         ELSE files[Last(has)].providers[n]]_vars

\* the first shard gives p the hash h1 and the second h2, the root document
\* gives q the hash h0 and the second shard h2: the stored view has h2 for both
C21_Witness ==
  \E url \in DOMAIN world.root :
    /\ world.root[url].providers = ("q" :> "h0")
    /\ Len(world.root[url].providerIncludes) = 2
    /\ Served(world.root[url].providerIncludes, 1).providers = ("p" :> "h1")
    /\ Served(world.root[url].providerIncludes, 2).providers
         = ("p" :> "h2" @@ "q" :> "h2")
    /\ repoCache[RepoKey(url)].t = "view"
    /\ repoCache[RepoKey(url)].providerPackages = ("p" :> "h2" @@ "q" :> "h2")
\* the getPackagistFile calls of the includes loop of caller c that have
\* started and not completed
IncludesInFlight(c) == { t \in inflight : t.owner = c /\ t.kind = "inc" }

\* C22: at most one includes fetch of an assembly is in flight, and it is the
\* one for the descriptor the loop is at; when it has completed, its packages
\* are normalised and written over the ones merged so far, and only then
\* the fetch of the next descriptor in list order starts, or, after the last
\* one, the assembly ends.
C22_IncludesOneByOne ==
  /\ [](\A c \in Callers :
          /\ Cardinality(IncludesInFlight(c)) <= 1
          /\ \A t \in IncludesInFlight(c) :
               /\ call[c].pc = "incFetch"
               /\ t.idx = call[c].incIdx
               /\ t.key = call[c].meta.includesFiles[t.idx].key)
  /\ [][\A c \in Callers :
          (call[c].pc = "incDone" /\ call'[c] # call[c]) =>
            LET k == call[c].incIdx
                pk == call[c].incRes.packages
                before == call[c].includesPackages
                after == IF call'[c].pc = "view"
                         THEN call'[c].view.includesPackages
                         ELSE call'[c].includesPackages IN
            /\ DOMAIN after = (DOMAIN before) \cup (DOMAIN pk)
            /\ \A n \in DOMAIN after :
                 after[n] = IF n \in DOMAIN pk
                            THEN extractDepReleases(pk[n], n)
                            ELSE before[n]
            /\ IF k < Len(call[c].meta.includesFiles)
               THEN /\ call'[c].pc = "incFetch"
                    /\ call'[c].incIdx = k + 1
                    /\ \E t \in inflight' \ inflight :
                         t.owner = c /\ t.kind = "inc" /\ t.idx = k + 1
               ELSE call'[c].pc = "view"]_vars

\* both includes files have package p, with different versions: the stored
\* view has the second file's p and the first file's q
C22_Witness ==
  \E url \in DOMAIN world.root :
    /\ Len(world.root[url].includes) = 2
    /\ Served(world.root[url].includes, 1).packages["p"] = VM2
    /\ Served(world.root[url].includes, 2).packages = ("p" :> VM1)
    /\ repoCache[RepoKey(url)].t = "view"
    /\ repoCache[RepoKey(url)].includesPackages
         = ("p" :> extractDepReleases(VM1, "p")
            @@ "q" :> extractDepReleases(VM1, "q"))
\* the view has the name as a provider package only, and a providers-url
ProviderOnly(v, name) ==
  /\ Truthy(v)
  /\ name \notin DOMAIN v.packages
  /\ name \notin DOMAIN v.includesPackages
  /\ name \in DOMAIN v.providerPackages
  /\ v.providersUrl # Absent

\* C23: a lookup that finds the registry's entry resolved sends no root or
\* shard request; when it resolves the name as a provider package it sends
\* exactly one per-package request, and neither that step nor the completion
\* of the request reads or writes the persistent cache.
C23_ProviderLookupUncached ==
  [][\A c \in Callers :
       LET s == call[c]
           url == RegUrlOf(s) IN
       /\ (/\ s.pc = "lookup" /\ call'[c] # s /\ url # PackagistOrg
           /\ repoCache[RepoKey(url)].t = "view")
            => /\ call'[c].pc = "view"
               /\ call'[c].view = repoCache[RepoKey(url)]
               /\ fetches' = fetches
               /\ inflight' = inflight
       /\ (/\ s.pc = "view" /\ call'[c] # s
           /\ ProviderOnly(s.view, s.lookupName))
            => /\ call'[c].pc = "provFetch"
               /\ fetches' = [fetches EXCEPT ![url].pkg = @ + 1]
               /\ inflight' = inflight
               /\ filesCache' = filesCache
               /\ orgCache' = orgCache
               /\ cacheOps' = cacheOps
       /\ (s.pc = "provFetch" /\ call'[c] # s)
            => /\ call'[c].pc \in {"ret", "raised"}
               /\ fetches' = fetches
               /\ inflight' = inflight
               /\ filesCache' = filesCache
               /\ orgCache' = orgCache
               /\ cacheOps' = cacheOps]_vars

\* two successive lookups of a provider package: one root request, two shard
\* requests with their cache accesses, and two per-package requests
C23_Witness ==
  \E c \in Callers :
    /\ call[c].pc = "done"
    /\ call[c].registries = <<RegA>>
    /\ call[c].res.t = "dep"
    /\ calls = 2
    /\ fetches[RegA] = [root |-> 1, shard |-> 2, pkg |-> 2]
    /\ cacheOps[RegA] = [gets |-> 2, sets |-> 2]
\* caller c is in getAllPackages(url) and takes a step
AllPackagesStep(c, url) ==
  /\ call[c].pc \in {"lookup", "wait", "rootFetch", "fanout", "joined",
                     "incFetch", "incDone"}
  /\ RegUrlOf(call[c]) = url
  /\ call'[c] # call[c]

\* C24: the entry of a registry changes only in a step of a getAllPackages
\* call for that very registry, and a call starts to wait only when the
\* marker was installed for its own registry.
C24_EntriesIndependent ==
  [][/\ \A url \in RegUrls :
          repoCache'[RepoKey(url)] # repoCache[RepoKey(url)]
            => \E c \in Callers : AllPackagesStep(c, url)
     /\ \A c \in Callers :
          (call[c].pc = "lookup" /\ call'[c].pc = "wait")
            => /\ fetches[RegUrlOf(call[c])].root > Len(history[RegUrlOf(call[c])])
               /\ repoCache[RepoKey(RegUrlOf(call[c]))] = Pending]_vars

\* RegA is being assembled while a lookup against RegB, which did not wait,
\* has got RegB's view
C24_Witness ==
  \E c, d \in Callers :
    /\ Assembling(c, RegA)
    /\ repoCache[RepoKey(RegA)] = Pending
    /\ call[d].pc = "view" /\ RegUrlOf(call[d]) = RegB
    /\ ~call[d].waited
    /\ Truthy(call[d].view)
    /\ repoCache[RepoKey(RegB)] = call[d].view
\* the per-package document of caller c's provider lookup has a `packages`
\* object without an entry for the name
EntryMissing(s) ==
  /\ s.pc \in {"ret", "done"}
  /\ s.pkgBody.hasPackages
  /\ s.lookupName \notin DOMAIN s.pkgBody.packages

\* C25: when the per-package document of a provider package has no entry for
\* the name, the lookup returns a result with that name and an empty
\* releases array, and getReleases returns it without querying the
\* registries after this one.
C25_MissingEntryStops ==
  \A c \in Callers :
    LET s == call[c] IN
    EntryMissing(s) =>
      /\ s.pc = "ret" => /\ s.lres.t = "dep"
                         /\ s.lres.name = s.lookupName
                         /\ s.lres.releases = Array(<<>>)
      /\ s.pc = "done" => /\ s.res.t = "dep"
                          /\ s.res.name = s.lookupName
                          /\ s.res.releases = Array(<<>>)
                          /\ s.queried = SubSeq(s.registries, 1, s.idx)

\* the first registry's per-package document has no entry for the name, and
\* the second registry, which has the package, was not queried
C25_Witness ==
  \E c \in Callers :
    LET s == call[c] IN
    /\ EntryMissing(s)
    /\ s.pc = "done"
    /\ s.idx = 1 /\ Len(s.registries) = 2
    /\ s.lookupName \in DOMAIN world.root[s.registries[2]].packages
    /\ s.res.releases = Array(<<>>)
    /\ fetches[s.registries[2]].root = 0
====
